---- MODULE Spec2Model ----
(***************************************************************************)
(* State-machine model of data-seeding/seed_patents.py: the rate-limited   *)
(* request wrapper, the two API calls, the metadata extraction, the        *)
(* insert-or-update statement, the per-topic loop and main().              *)
(***************************************************************************)
EXTENDS Integers, Sequences, FiniteSets, TLC

VARIABLES
    pc,              \* position of the single thread of control
    API_KEY,         \* os.getenv("PATENTSVIEW_API_KEY")
    exit_status,     \* process exit status, meaningful once pc = "exit"
    now,             \* the monotonic clock, in seconds
    last_reset,      \* limits decorator: start of the current period
    num_calls,       \* limits decorator: calls counted in the current period
    conn,            \* "none", "open" or "closed"
    topic_idx,       \* index into config["search_topics"] of main's loop
    patents,         \* process_topic: the hits of the current topic
    i,               \* process_topic: 1-based index of the current hit
    summary_text,    \* process_topic: summary fetched for the current hit
    inserted_count,  \* process_topic: running count of the current topic
    total_inserted,  \* main: running total
    db,              \* committed rows of table patents, in insertion order
    txn,             \* the connection's transaction: open or not, the table as it sees it
    uncaught,        \* the exception that ended the process, or None
    \* ---- observation (history) variables, never read by the program ----
    issued,          \* outbound requests sent, in order: time, kind, parameters
    last_call,       \* the API call just made: kind, outcome of the request, result
    waited,          \* seconds slept by the call now pending at the gate
    acquired,        \* number of get_db_connection() successes
    released,        \* number of conn.close() calls
    fetched,         \* summary fetches of the current process_topic call
    attempted,       \* insert attempts of the current process_topic call
    failed,          \* indexes of the hits whose insert raised, current process_topic call
    searched,        \* what search_patents returned to the current process_topic call
    summaries,       \* what fetch_patent_summary returned for its hits, in order
    upserts,         \* insert attempts of the whole execution
    events,          \* searches, summary fetches and insert attempts, in order
    applied,         \* the bound parameters of the inserts that were committed, in order
    db_at_start,     \* db when the current process_topic call started
    db_before,       \* db just before the last insert attempt
    last_try,        \* the last insert attempt: bound parameters, success
    prev_ok,         \* the successful insert before the last successful one
    returns          \* what each finished process_topic call returned, in order

vars == <<pc, API_KEY, exit_status, now, last_reset, num_calls, conn,
          topic_idx, patents, i, summary_text, inserted_count,
          total_inserted, db, txn, uncaught, issued, last_call, waited,
          acquired, released, fetched, attempted, failed, searched,
          summaries, upserts, events, applied,
          db_at_start, db_before, last_try, prev_ok, returns>>

-----------------------------------------------------------------------------
(* Python values *)

None == "None"

\* dict.get(key, default)
Get(d, key, default) == IF key \in DOMAIN d THEN d[key] ELSE default

\* truthiness of a str / None value
Truthy(v) == v # None /\ v # ""

-----------------------------------------------------------------------------
(* Bounds of the model *)

\* configured budget config["api"]["rate_limit_per_minute"] (45 by default)
RATE_LIMIT == 2

\* granularity of the clock: seconds that pass in one Tick
TickSeconds == 30

\* the clock is not advanced by Tick beyond this many seconds
MaxTime == 60

\* longest list of hits a search response carries
MaxHits == 2

-----------------------------------------------------------------------------
(* Configuration and the remote service's possible answers *)

CALLS_PER_MINUTE == RATE_LIMIT

ONE_MINUTE == 60

\* config["search_topics"]
search_topics ==
    << [name |-> "solar", query |-> "solar panel", max_patents |-> 2000],
       [name |-> "wind",  query |-> "wind turbine", max_patents |-> 1] >>

\* Hits the search endpoint may return.  H3 is the patent of H1 as the
\* service describes it at another time (same patent_id, other metadata).
H1 == [patent_id |-> "P1", patent_title |-> "Solar panel",
       patent_date |-> "2021-01-05",
       assignees |-> << [assignee_organization |-> "Acme",
                         assignee_country |-> "US",
                         assignee_type |-> "2"] >>,
       cpc_current |-> << [cpc_group_id |-> "H02S"], [cpc_group_id |-> ""],
                          [cpc_group_id |-> "H02S"] >>,
       wipo |-> << [wipo_field_id |-> "1"], [wipo_field_id |-> "2"] >>,
       inventors |-> << [inventor_name_first |-> <<"A", "l">>,
                         inventor_name_last |-> <<"B">>] >>]

H2 == [patent_id |-> "P2", patent_title |-> "Wind turbine",
       patent_date |-> "2022-03-01",
       assignees |-> << >>,
       cpc_current |-> << >>,
       wipo |-> << >>,
       inventors |-> << [inventor_name_first |-> <<"F">>] >>]

H3 == [patent_id |-> "P1", patent_title |-> "Solar panel (reissue)",
       patent_date |-> "2021-01-05",
       assignees |-> << [assignee_organization |-> "Bolt",
                         assignee_country |-> "DE"] >>,
       cpc_current |-> << [cpc_group_id |-> "F03D"] >>,
       inventors |-> << [inventor_name_last |-> <<"C">>],
                        [inventor_name_first |-> <<" ", "D">>,
                         inventor_name_last |-> <<"E", " ">>] >>]

Catalogue == {H1, H2, H3}

RECURSIVE SeqsUpTo(_, _)
SeqsUpTo(S, n) ==
    IF n = 0 THEN { << >> }
    ELSE LET shorter == SeqsUpTo(S, n - 1)
         IN  shorter \cup { Append(s, x) : s \in shorter, x \in S }

\* The lists of hits a response to a request for `size` hits may carry
HitLists(size) == SeqsUpTo(Catalogue, IF size < MaxHits THEN size ELSE MaxHits)

\* JSON bodies of the search endpoint: the error flag may be true, false or
\* missing, and the list of hits may be missing.
SearchBodies(size) ==
    { [error |-> e, patents |-> l] : e \in BOOLEAN, l \in HitLists(size) }
    \cup { [patents |-> l] : l \in HitLists(size) }
    \cup { [error |-> e] : e \in BOOLEAN }

SummaryEntries ==
    { << >>,
      << [summary_text |-> "Text A"] >>,
      << [patent_id |-> "P"] >>,
      << [summary_text |-> "Text A"], [summary_text |-> "Text B"] >> }

\* JSON bodies of the summary endpoint: the error flag may be true, false or
\* missing, and the list of texts may be missing.
SummaryBodies ==
    { [error |-> FALSE, g_brf_sum_texts |-> l] : l \in SummaryEntries }
    \cup { [error |-> TRUE, g_brf_sum_texts |-> << [summary_text |-> "Text A"] >>],
            [g_brf_sum_texts |-> << [summary_text |-> "Text A"] >>],
            [error |-> TRUE],
            [error |-> FALSE] }

\* What requests.get / raise_for_status can do: answer, or raise because the
\* connection failed, the 30 s timeout ran out, or the status is no success.
Transport == {"ok", "ConnectionError", "Timeout", "HTTPError"}

Responses(bodies) ==
    { [raised |-> t, data |-> b] : t \in {"ok"}, b \in bodies }
    \cup { [raised |-> t] : t \in Transport \ {"ok"} }

-----------------------------------------------------------------------------
(* The rate gate: @sleep_and_retry @limits(calls, period) *)

\* limits.__init__: clamped_calls = max(1, min(sys.maxsize, floor(calls)))
clamped_calls == IF CALLS_PER_MINUTE < 1 THEN 1 ELSE CALLS_PER_MINUTE

\* limits.__period_remaining at clock value t
period_remaining(t) == ONE_MINUTE - (t - last_reset)

\* the wrapper resets the period once it has run out
PeriodOver(t) == period_remaining(t) <= 0

reset_at(t) == IF PeriodOver(t) THEN t ELSE last_reset

\* variant: the wrapper counts every call twice
counted_twice(t) == (IF PeriodOver(t) THEN 0 ELSE num_calls) + 2

\* num_calls after the wrapper has counted this call
counted(t) == (IF PeriodOver(t) THEN 0 ELSE num_calls) + 1

\* the wrapper raises RateLimitException instead of calling the function
Limited(t) == counted(t) > clamped_calls

\* sleep_and_retry: time.sleep(exception.period_remaining)
sleep_until(t) == t + period_remaining(t)

-----------------------------------------------------------------------------
(* The API client *)

\* what a function call does: return a value or raise an exception
Returns(v) == [returns |-> v]

Raises(e) == [raises |-> e]

IsRaise(r) == "raises" \in DOMAIN r

\* rate_limited_request once the gate has let the call through: the
\* response, or the exception raised by requests.get / raise_for_status
rate_limited_request(resp) ==
    IF resp.raised = "ok" THEN Returns(resp.data) ELSE Raises(resp.raised)

\* variant: the except clauses name requests.exceptions.Timeout
RequestException_timeout == {"Timeout"}

\* requests.exceptions.RequestException and its subclasses, which the
\* except clauses of search_patents and fetch_patent_summary name
RequestException == {"ConnectionError", "Timeout", "HTTPError"}

\* variant: max_results is passed on as it is
SearchSize_uncapped(max_results) == max_results

\* options["size"] of the search request
SearchSize(max_results) == IF max_results < 1000 THEN max_results ELSE 1000

\* variant: search_patents without its try statement
search_patents_no_try(resp) ==
    LET r == rate_limited_request(resp)
    IN  IF IsRaise(r) THEN r
        ELSE IF Get(r.returns, "error", TRUE) THEN Returns(<< >>)
        ELSE Returns(Get(r.returns, "patents", << >>))

\* search_patents, lines 107-123, for the outcome resp of its request
search_patents(resp) ==
    LET r == rate_limited_request(resp)
    IN  IF IsRaise(r)
        THEN IF r.raises \in RequestException THEN Returns(<< >>) ELSE r
        ELSE IF Get(r.returns, "error", TRUE) THEN Returns(<< >>)
        ELSE Returns(Get(r.returns, "patents", << >>))

\* variant: the error flag is read with data.get("error", False)
fetch_patent_summary_lenient(resp) ==
    LET r == rate_limited_request(resp)
    IN  IF IsRaise(r)
        THEN IF r.raises \in RequestException THEN Returns(None) ELSE r
        ELSE IF Get(r.returns, "error", FALSE)
                \/ Get(r.returns, "g_brf_sum_texts", << >>) = << >>
             THEN Returns(None)
        ELSE Returns(Get(r.returns["g_brf_sum_texts"][1], "summary_text", None))

\* fetch_patent_summary, lines 139-151, for the outcome resp of its request
fetch_patent_summary(resp) ==
    LET r == rate_limited_request(resp)
    IN  IF IsRaise(r)
        THEN IF r.raises \in RequestException THEN Returns(None) ELSE r
        ELSE IF Get(r.returns, "error", TRUE)
                \/ Get(r.returns, "g_brf_sum_texts", << >>) = << >>
             THEN Returns(None)
        ELSE Returns(Get(r.returns["g_brf_sum_texts"][1], "summary_text", None))

-----------------------------------------------------------------------------
(* extract_patent_metadata *)

IsSpace(c) == c \in {" ", "\t", "\n"}

RECURSIVE lstrip(_)
lstrip(s) ==
    IF s # << >> /\ IsSpace(Head(s)) THEN lstrip(Tail(s)) ELSE s

RECURSIVE rstrip(_)
rstrip(s) ==
    IF s # << >> /\ IsSpace(s[Len(s)])
    THEN rstrip(SubSeq(s, 1, Len(s) - 1)) ELSE s

\* str.strip()
strip(s) == rstrip(lstrip(s))

\* variant: the formatted name is not stripped
inventor_name_unstripped(inv) ==
    Get(inv, "inventor_name_first", << >>) \o <<" ">>
    \o Get(inv, "inventor_name_last", << >>)

\* f"{first} {last}".strip() of one inventor entry
inventor_name(inv) ==
    strip(Get(inv, "inventor_name_first", << >>) \o <<" ">>
          \o Get(inv, "inventor_name_last", << >>))

RECURSIVE cpc_group_ids(_)
cpc_group_ids(cpcs) ==
    IF cpcs = << >> THEN << >>
    ELSE LET g == Get(Head(cpcs), "cpc_group_id", None)
         IN  (IF Truthy(g) THEN <<g>> ELSE << >>) \o cpc_group_ids(Tail(cpcs))

extract_patent_metadata(patent) ==
    LET assignees == Get(patent, "assignees", << >>)
        first_assignee == IF assignees # << >> THEN assignees[1] ELSE << >>
        wipo_fields == Get(patent, "wipo", << >>)
        inventors == Get(patent, "inventors", << >>)
    IN  [patent_id |-> Get(patent, "patent_id", None),
         patent_title |-> Get(patent, "patent_title", None),
         patent_date |-> Get(patent, "patent_date", None),
         assignee_organization |-> Get(first_assignee, "assignee_organization", None),
         assignee_country |-> Get(first_assignee, "assignee_country", None),
         assignee_type |-> Get(first_assignee, "assignee_type", None),
         cpc_groups |-> cpc_group_ids(Get(patent, "cpc_current", << >>)),
         wipo_field_id |-> IF wipo_fields # << >>
                           THEN Get(wipo_fields[1], "wipo_field_id", None)
                           ELSE None,
         inventor_count |-> Len(inventors),
         inventor_names |-> [k \in 1..Len(inventors) |-> inventor_name(inventors[k])],
         raw_data |-> patent]

-----------------------------------------------------------------------------
(* insert_patent *)

\* psycopg2.extras.Json: the adapter that stores a value as JSON
Json(v) == [adapted |-> v]

\* the parameters insert_patent binds: patent_data after lines 213-216
bound_params(patent_data, search_topic) ==
    [patent_data EXCEPT !.cpc_groups = Json(@),
                        !.inventor_names = Json(@),
                        !.raw_data = Json(@)]
    @@ [search_topic |-> search_topic]

\* variant: ON CONFLICT (patent_id) DO NOTHING
on_conflict_nothing(row, excluded) == row

\* variant: DO UPDATE SET every column to its EXCLUDED value
on_conflict_replace(row, excluded) == excluded

\* ON CONFLICT (patent_id) DO UPDATE SET summary_text = EXCLUDED.summary_text,
\*                                       search_topic = EXCLUDED.search_topic
on_conflict(row, excluded) ==
    [row EXCEPT !.summary_text = excluded.summary_text,
                !.search_topic = excluded.search_topic]

\* variant: a plain INSERT into a table without the key on patent_id
insert_patent_plain(rows, patent_data, search_topic) ==
    Append(rows, bound_params(patent_data, search_topic))

\* the table after the INSERT ... ON CONFLICT statement has run on rows
insert_patent(rows, patent_data, search_topic) ==
    LET excluded == bound_params(patent_data, search_topic)
    IN  IF \E k \in 1..Len(rows) : rows[k].patent_id = excluded.patent_id
        THEN [k \in 1..Len(rows) |->
                 IF rows[k].patent_id = excluded.patent_id
                 THEN on_conflict(rows[k], excluded) ELSE rows[k]]
        ELSE Append(rows, excluded)

\* what cursor.execute / conn.commit can do: succeed, or raise a
\* psycopg2 error (constraint violation, lost connection)
DbOutcomes == {"ok", "IntegrityError", "OperationalError"}

\* the classes `except Exception` names: every exception of the program
Exception == RequestException \cup (DbOutcomes \ {"ok"}) \cup {"RateLimitException"}

-----------------------------------------------------------------------------
(* The program *)

NoRecord == [patent_id |-> None]

NoCall == [kind |-> "none"]

\* no transaction is open on the connection
NoTxn == [open |-> FALSE, rows |-> << >>]

Init ==
    /\ pc = "import"
    /\ API_KEY \in {None, "", "k3y"}
    /\ exit_status = 0
    /\ now = 0
    /\ last_reset = 0
    /\ num_calls = 0
    /\ conn = "none"
    /\ topic_idx = 0
    /\ patents = << >>
    /\ i = 0
    /\ summary_text = None
    /\ inserted_count = 0
    /\ total_inserted = 0
    /\ db = << >>
    /\ txn = NoTxn
    /\ uncaught = None
    /\ issued = << >>
    /\ last_call = NoCall
    /\ waited = 0
    /\ acquired = 0
    /\ released = 0
    /\ fetched = 0
    /\ attempted = 0
    /\ failed = {}
    /\ searched = << >>
    /\ summaries = << >>
    /\ upserts = 0
    /\ events = << >>
    /\ applied = << >>
    /\ db_at_start = << >>
    /\ db_before = << >>
    /\ last_try = [rec |-> NoRecord, ok |-> FALSE]
    /\ prev_ok = NoRecord
    /\ returns = << >>

\* variant: the check of the key is left out
key_missing_unchecked(key) == FALSE

\* lines 34-36: `if not API_KEY`
key_missing(key) == ~Truthy(key)

\* An exception nobody catches ends the process with a traceback and a
\* non-zero status; sys.exit(1) ends it with status 1.
Die(exc) ==
    /\ pc' = "exit"
    /\ exit_status' = 1
    /\ uncaught' = exc

\* Module level, lines 22-50: the key is read and checked, the decorated
\* rate_limited_request is built (its period starts now), main() is called.
LoadModule ==
    /\ pc = "import"
    /\ IF key_missing(API_KEY)
       THEN /\ Die(None)
            /\ UNCHANGED <<last_reset, num_calls>>
       ELSE /\ pc' = "main"
            /\ last_reset' = now
            /\ num_calls' = 0
            /\ UNCHANGED <<exit_status, uncaught>>
    /\ UNCHANGED <<API_KEY, now, conn, topic_idx, patents, i, summary_text,
                   inserted_count, total_inserted, db, txn, issued, last_call,
                   waited, acquired, released, fetched, attempted, failed,
                   searched, summaries, upserts, events, applied, db_at_start,
                   db_before, last_try, prev_ok, returns>>

\* main, lines 288-298: get_db_connection() returns a connection or raises
Connect ==
    /\ pc = "main"
    /\ \E connected \in BOOLEAN :
          IF connected
          THEN /\ conn' = "open"
               /\ acquired' = acquired + 1
               /\ total_inserted' = 0
               /\ topic_idx' = 1
               /\ pc' = "topic"
               /\ UNCHANGED <<exit_status, uncaught>>
          ELSE /\ Die(None)
               /\ UNCHANGED <<conn, acquired, total_inserted, topic_idx>>
    /\ UNCHANGED <<API_KEY, now, last_reset, num_calls, patents, i,
                   summary_text, inserted_count, db, txn, issued, last_call,
                   waited, released, fetched, attempted, failed, searched,
                   summaries, upserts, events, applied, db_at_start, db_before,
                   last_try, prev_ok, returns>>

\* conn.close(), line 305
conn_close(c) == "closed"

\* main, lines 300-305: the next topic's process_topic call starts (it runs
\* up to the request of search_patents), or the loop is over, the
\* connection is closed and the script runs off its end.
NextTopic ==
    /\ pc = "topic"
    /\ IF topic_idx <= Len(search_topics)
       THEN /\ pc' = "search"
            /\ fetched' = 0
            /\ attempted' = 0
            /\ failed' = {}
            /\ searched' = << >>
            /\ summaries' = << >>
            /\ db_at_start' = db
            /\ last_call' = NoCall
            /\ UNCHANGED <<conn, released, exit_status>>
       ELSE /\ conn' = conn_close(conn)
            /\ released' = released + 1
            /\ pc' = "exit"
            /\ exit_status' = 0
            /\ last_call' = NoCall
            /\ UNCHANGED <<fetched, attempted, failed, searched, summaries,
                           db_at_start>>
    /\ UNCHANGED <<API_KEY, now, last_reset, num_calls, topic_idx, patents, i,
                   summary_text, inserted_count, total_inserted, db, txn,
                   uncaught, issued, waited, acquired, upserts, events,
                   applied, db_before, last_try, prev_ok, returns>>

\* Time passes.  Only the gate reads the clock, so the time that passes
\* anywhere in the program is folded into the moment before a request.
Tick ==
    /\ pc \in {"search", "fetch"}
    /\ now + TickSeconds <= MaxTime
    /\ now' = now + TickSeconds
    /\ UNCHANGED <<pc, API_KEY, exit_status, last_reset, num_calls, conn,
                   topic_idx, patents, i, summary_text, inserted_count,
                   total_inserted, db, txn, uncaught, issued, last_call,
                   waited, acquired, released, fetched, attempted, failed,
                   searched, summaries, upserts, events, applied, db_at_start,
                   db_before, last_try, prev_ok, returns>>

\* variant: rate_limited_request is decorated with @limits alone
sleep_and_retry_absent == FALSE

\* line 43: with @sleep_and_retry a RateLimitException makes the call sleep
\* and try again
sleep_and_retry == TRUE

\* rate_limited_request, lines 43-44, when the budget of the period is used
\* up: limits counts the call and raises RateLimitException, sleep_and_retry
\* sleeps for the rest of the period and calls again.
Throttle ==
    /\ pc \in {"search", "fetch"}
    /\ Limited(now)
    /\ num_calls' = counted(now)
    /\ last_reset' = reset_at(now)
    /\ IF sleep_and_retry
       THEN /\ now' = sleep_until(now)
            /\ waited' = waited + (sleep_until(now) - now)
            /\ UNCHANGED <<pc, exit_status, uncaught>>
       ELSE /\ Die("RateLimitException")
            /\ UNCHANGED <<now, waited>>
    /\ UNCHANGED <<API_KEY, conn, topic_idx, patents, i, summary_text,
                   inserted_count, total_inserted, db, txn, issued, last_call,
                   acquired, released, fetched, attempted, failed, searched,
                   summaries, upserts, events, applied, db_at_start, db_before,
                   last_try, prev_ok, returns>>

\* the gate lets the pending call through: limits counts it and the request
\* is sent
Issue(request) ==
    /\ ~Limited(now)
    /\ num_calls' = counted(now)
    /\ last_reset' = reset_at(now)
    /\ issued' = Append(issued, [t |-> now, waited |-> waited] @@ request)
    /\ waited' = 0

\* the response reports no data: the request failed or the body does not
\* carry a false error flag
NoData(resp) == resp.raised # "ok" \/ Get(resp.data, "error", TRUE)

\* variant: conn.close() is called where cursor.close() belongs
cursor_close_conn(c) == "closed"

\* cursor.close(), line 272: it closes the cursor and leaves the connection
cursor_close(c) == c

\* process_topic returns count to main, lines 301-302
Return(count) ==
    /\ total_inserted' = total_inserted + count
    /\ topic_idx' = topic_idx + 1
    /\ pc' = "topic"
    /\ patents' = << >>
    /\ i' = 0
    /\ summary_text' = None
    /\ inserted_count' = 0

\* variant: the early return is never taken and the loop body runs
no_patents_never(found) == FALSE

\* line 235: `if not patents`
no_patents(found) == found = << >>

\* the request search_patents builds, lines 78-105
search_request(topic) ==
    [kind |-> "search", q |-> topic.query,
     size |-> SearchSize(topic.max_patents), page |-> 1]

\* the outcomes the search request of each configured topic can have
SearchResponses ==
    [n \in 1..Len(search_topics) |->
        Responses(SearchBodies(search_request(search_topics[n]).size))]

\* the outcomes a summary request can have
SummaryResponses == Responses(SummaryBodies)

\* process_topic, lines 233-241: search_patents sends its request and
\* returns; with no hits process_topic returns 0, else the loop starts.
Search ==
    /\ pc = "search"
    /\ Issue(search_request(search_topics[topic_idx]))
    /\ events' = Append(events, [op |-> "search", topic |-> topic_idx,
                                 hit |-> 0, id |-> None])
    /\ \E resp \in SearchResponses[topic_idx] :
          LET r == search_patents(resp)
          IN  /\ last_call' = [kind |-> "search", resp |-> resp, result |-> r]
              /\ IF IsRaise(r)
                 THEN /\ Die(r.raises)
                      /\ UNCHANGED <<patents, i, inserted_count, summary_text,
                                     total_inserted, topic_idx, returns,
                                     searched>>
                 ELSE IF no_patents(r.returns)
                 THEN /\ Return(0)
                      /\ searched' = r.returns
                      /\ returns' = Append(returns,
                            [hits |-> Len(r.returns), nodata |-> NoData(resp),
                             count |-> 0, fetched |-> fetched,
                             attempted |-> attempted, failed |-> failed,
                             db_unchanged |-> (db = db_at_start)])
                      /\ UNCHANGED <<exit_status, uncaught>>
                 ELSE /\ patents' = r.returns
                      /\ searched' = r.returns
                      /\ i' = 1
                      /\ inserted_count' = 0
                      /\ pc' = "fetch"
                      /\ UNCHANGED <<summary_text, total_inserted, topic_idx,
                                     returns, exit_status, uncaught>>
    /\ UNCHANGED <<API_KEY, now, conn, db, txn, acquired, released, fetched,
                   attempted, failed, summaries, upserts, applied, db_at_start,
                   db_before, last_try, prev_ok>>

\* the request fetch_patent_summary builds, lines 136-137
summary_request(patent_id) == [kind |-> "summary", patent_id |-> patent_id]

\* process_topic, lines 243-260: metadata is extracted and
\* fetch_patent_summary sends its request and returns
Fetch ==
    /\ pc = "fetch"
    /\ Issue(summary_request(Get(patents[i], "patent_id", None)))
    /\ events' = Append(events, [op |-> "fetch", topic |-> topic_idx,
                                 hit |-> i,
                                 id |-> Get(patents[i], "patent_id", None)])
    /\ \E resp \in SummaryResponses :
          LET r == fetch_patent_summary(resp)
          IN  /\ last_call' = [kind |-> "summary", resp |-> resp, result |-> r]
              /\ IF IsRaise(r)
                 THEN /\ Die(r.raises)
                      /\ UNCHANGED <<summary_text, fetched, summaries>>
                 ELSE /\ summary_text' = r.returns
                      /\ fetched' = fetched + 1
                      /\ summaries' = Append(summaries, r.returns)
                      /\ pc' = "insert"
                      /\ UNCHANGED <<exit_status, uncaught>>
    /\ UNCHANGED <<API_KEY, now, conn, topic_idx, patents, i, inserted_count,
                   total_inserted, db, txn, acquired, released, attempted,
                   failed, searched, upserts, applied, db_at_start, db_before,
                   last_try, prev_ok, returns>>

\* variant: the fetched summary is not attached to patent_data
patent_data_of_no_summary(patent, summary) ==
    extract_patent_metadata(patent) @@ [summary_text |-> None]

\* patent_data as process_topic hands it to insert_patent, lines 250-255
patent_data_of(patent, summary) ==
    extract_patent_metadata(patent) @@ [summary_text |-> summary]

\* variant: the except clause names psycopg2.IntegrityError only
insert_except_integrity == {"IntegrityError"}

\* line 268: the classes the except clause around the insert names
insert_except == Exception

\* the table as the statements of the connection see it
visible(rows, t) == IF t.open THEN t.rows ELSE rows

\* cursor.execute(sql, patent_data), line 218, in the connection's
\* transaction (psycopg2 opens one with the first statement): the statement
\* runs, or raises IntegrityError and changes nothing
execute(rows, t, patent_data, search_topic, outcome) ==
    [open |-> TRUE,
     rows |-> IF outcome = "IntegrityError" THEN visible(rows, t)
              ELSE insert_patent(visible(rows, t), patent_data, search_topic)]

\* variant: the except clause does not roll back
conn_rollback_absent(t) == t

\* conn.rollback(), line 269: the transaction ends and its changes are dropped
conn_rollback(t) == NoTxn

\* lines 263-270: the connection's transaction after the try statement:
\* conn.commit() (which raises OperationalError when the connection is
\* lost) or conn.rollback() has ended it
txn_after_try(rows, t, patent_data, search_topic, outcome) ==
    IF outcome = "ok" THEN NoTxn
    ELSE conn_rollback(execute(rows, t, patent_data, search_topic, outcome))

\* lines 263-270: the committed table after the try statement
after_try(rows, t, patent_data, search_topic, outcome) ==
    IF outcome = "ok"
    THEN execute(rows, t, patent_data, search_topic, outcome).rows
    ELSE rows

\* variant: inserted_count += 1 stands after the try statement
count_after_try_always(count, outcome) == count + 1

\* lines 263-270: inserted_count after the try statement
count_after_try(count, outcome) ==
    IF outcome = "ok" THEN count + 1 ELSE count

\* process_topic, lines 262-276: the insert is tried and committed, or
\* raises and is rolled back; then the loop goes on to the next hit or, after
\* the last one, the cursor is closed and the count is returned.
Insert ==
    /\ pc = "insert"
    /\ \E outcome \in DbOutcomes,
          patent_data \in {patent_data_of(patents[i], summary_text)} :
          LET topic_name == search_topics[topic_idx].name
              db_after == after_try(db, txn, patent_data, topic_name, outcome)
              count == count_after_try(inserted_count, outcome)
              failures == IF outcome = "ok" THEN failed ELSE failed \cup {i}
          IN  /\ db' = db_after
              /\ txn' = txn_after_try(db, txn, patent_data, topic_name, outcome)
              /\ applied' = IF outcome = "ok"
                            THEN Append(applied, bound_params(patent_data, topic_name))
                            ELSE applied
              /\ db_before' = db
              /\ last_try' = [rec |-> bound_params(patent_data, topic_name),
                              ok |-> (outcome = "ok")]
              /\ prev_ok' = IF last_try.ok THEN last_try.rec ELSE prev_ok
              /\ attempted' = attempted + 1
              /\ upserts' = upserts + 1
              /\ events' = Append(events, [op |-> "upsert", topic |-> topic_idx,
                                           hit |-> i,
                                           id |-> patent_data.patent_id])
              /\ failed' = failures
              /\ last_call' = NoCall
              /\ IF outcome # "ok" /\ outcome \notin insert_except
                 THEN /\ Die(outcome)
                      /\ UNCHANGED <<patents, i, inserted_count, summary_text,
                                     total_inserted, topic_idx, returns, conn>>
                 ELSE IF i < Len(patents)
                 THEN /\ i' = i + 1
                      /\ inserted_count' = count
                      /\ summary_text' = None
                      /\ pc' = "fetch"
                      /\ UNCHANGED <<patents, topic_idx, total_inserted,
                                     returns, conn, exit_status, uncaught>>
                 ELSE /\ Return(count)
                      /\ conn' = cursor_close(conn)
                      /\ returns' = Append(returns,
                            [hits |-> Len(patents), nodata |-> FALSE,
                             count |-> count, fetched |-> fetched,
                             attempted |-> attempted + 1,
                             failed |-> failures,
                             db_unchanged |-> (db_after = db_at_start)])
                      /\ UNCHANGED <<exit_status, uncaught>>
    /\ UNCHANGED <<API_KEY, now, last_reset, num_calls, issued, waited,
                   acquired, released, fetched, searched, summaries,
                   db_at_start>>

Next ==
    \/ LoadModule
    \/ Connect
    \/ NextTopic
    \/ Tick
    \/ Throttle
    \/ Search
    \/ Fetch
    \/ Insert

Spec == Init /\ [][Next]_vars

\* The interpreter runs the single thread whenever it can run; nothing
\* obliges time to pass between two steps.
Program ==
    LoadModule \/ Connect \/ NextTopic \/ Throttle \/ Search \/ Fetch \/ Insert

FairSpec == Spec /\ WF_vars(Program)


-----------------------------------------------------------------------------
(* extract_patent_metadata on its own, over hits of every shape *)

\* a JSON object with the key, for each of the values, or without the key
Optional(key, values) == { [k \in {key} |-> v] : v \in values } \cup { << >> }

\* the name parts an inventor entry may carry ("" is the empty string)
FirstNames == { << >>, <<"F", "i", "r", "s", "t">>, <<" ", "D">> }

LastNames == { << >>, <<"B">>, <<"E", " ">> }

InventorEntries ==
    { f @@ l : f \in Optional("inventor_name_first", FirstNames),
               l \in Optional("inventor_name_last", LastNames) }

InventorLists ==
    { << >> } \cup { <<e>> : e \in InventorEntries }
    \cup { << [inventor_name_first |-> <<"F", "i", "r", "s", "t">>,
               inventor_name_last |-> <<"B">>],
              [inventor_name_last |-> <<"E", " ">>] >> }

AssigneeLists ==
    { << >>,
      << [assignee_organization |-> "Acme", assignee_country |-> "US",
          assignee_type |-> "2"] >>,
      << [assignee_country |-> "DE"] >>,
      << [assignee_organization |-> "Bolt", assignee_country |-> "DE",
          assignee_type |-> "3"],
         [assignee_organization |-> "Acme", assignee_country |-> "US",
          assignee_type |-> "2"] >> }

CpcLists ==
    { << >>,
      << [cpc_group_id |-> "H02S"], [cpc_group_id |-> ""],
         [cpc_group_id |-> "F03D"], [cpc_group_id |-> "H02S"] >>,
      << [cpc_subclass_id |-> "H02"], [cpc_group_id |-> "F03D"] >> }

WipoLists ==
    { << >>,
      << [wipo_field_id |-> "1"], [wipo_field_id |-> "2"] >>,
      << [wipo_sequence |-> "0"], [wipo_field_id |-> "2"] >> }

\* the hits extract_patent_metadata is applied to
HitShapes ==
    { [patent_id |-> "P1", patent_title |-> "Solar panel",
       patent_date |-> "2021-01-05"] @@ a @@ c @@ w @@ n :
        a \in Optional("assignees", AssigneeLists),
        c \in Optional("cpc_current", CpcLists),
        w \in Optional("wipo", WipoLists),
        n \in Optional("inventors", InventorLists) }

\* process_topic is about to handle one hit of a search result
ExtractInit ==
    /\ pc = "extract"
    /\ API_KEY = "k3y"
    /\ exit_status = 0
    /\ now = 0
    /\ last_reset = 0
    /\ num_calls = 0
    /\ conn = "open"
    /\ topic_idx = 1
    /\ \E hit \in HitShapes : patents = <<hit>>
    /\ i = 1
    /\ summary_text = None
    /\ inserted_count = 0
    /\ total_inserted = 0
    /\ db = << >>
    /\ txn = NoTxn
    /\ uncaught = None
    /\ issued = << >>
    /\ last_call = NoCall
    /\ waited = 0
    /\ acquired = 1
    /\ released = 0
    /\ fetched = 0
    /\ attempted = 0
    /\ failed = {}
    /\ searched = patents
    /\ summaries = << >>
    /\ upserts = 0
    /\ events = << >>
    /\ applied = << >>
    /\ db_at_start = << >>
    /\ db_before = << >>
    /\ last_try = [rec |-> NoRecord, ok |-> FALSE]
    /\ prev_ok = NoRecord
    /\ returns = << >>

\* process_topic, line 250: patent_data = extract_patent_metadata(patent)
Extract ==
    /\ pc = "extract"
    /\ last_call' = [kind |-> "extract",
                     result |-> Returns(extract_patent_metadata(patents[i]))]
    /\ pc' = "extracted"
    /\ UNCHANGED <<API_KEY, exit_status, now, last_reset, num_calls, conn,
                   topic_idx, patents, i, summary_text, inserted_count,
                   total_inserted, db, txn, uncaught, issued, waited, acquired,
                   released, fetched, attempted, failed, searched, summaries,
                   upserts, events, applied, db_at_start, db_before, last_try,
                   prev_ok, returns>>

ExtractNext == Extract

ExtractSpec == ExtractInit /\ [][ExtractNext]_vars

-----------------------------------------------------------------------------
(* The table under any sequence of inserts, as the calls of process_topic  *)
(* of any number of topics and runs make them                              *)

\* the number of inserts tried
MaxUpserts == 3

\* what fetch_patent_summary may have returned for a hit
Summaries == {None, "Text A", "Text B"}

UpsertInit ==
    /\ pc = "insert"
    /\ API_KEY = "k3y"
    /\ exit_status = 0
    /\ now = 0
    /\ last_reset = 0
    /\ num_calls = 0
    /\ conn = "open"
    /\ topic_idx = 1
    /\ patents = << >>
    /\ i = 0
    /\ summary_text = None
    /\ inserted_count = 0
    /\ total_inserted = 0
    /\ db = << >>
    /\ txn = NoTxn
    /\ uncaught = None
    /\ issued = << >>
    /\ last_call = NoCall
    /\ waited = 0
    /\ acquired = 1
    /\ released = 0
    /\ fetched = 0
    /\ attempted = 0
    /\ failed = {}
    /\ searched = << >>
    /\ summaries = << >>
    /\ upserts = 0
    /\ events = << >>
    /\ applied = << >>
    /\ db_at_start = << >>
    /\ db_before = << >>
    /\ last_try = [rec |-> NoRecord, ok |-> FALSE]
    /\ prev_ok = NoRecord
    /\ returns = << >>

\* process_topic, lines 250-270, for one hit of some topic: patent_data is
\* built from the hit and the fetched summary, the insert is tried and
\* committed, or raises and is rolled back
Upsert ==
    /\ pc = "insert"
    /\ upserts < MaxUpserts
    /\ \E hit \in Catalogue, summary \in Summaries,
          n \in 1..Len(search_topics), outcome \in DbOutcomes :
          LET topic_name == search_topics[n].name
              patent_data == patent_data_of(hit, summary)
          IN  /\ db' = after_try(db, txn, patent_data, topic_name, outcome)
              /\ txn' = txn_after_try(db, txn, patent_data, topic_name, outcome)
              /\ applied' = IF outcome = "ok"
                            THEN Append(applied, bound_params(patent_data, topic_name))
                            ELSE applied
              /\ db_before' = db
              /\ last_try' = [rec |-> bound_params(patent_data, topic_name),
                              ok |-> (outcome = "ok")]
              /\ prev_ok' = IF last_try.ok THEN last_try.rec ELSE prev_ok
              /\ upserts' = upserts + 1
    /\ UNCHANGED <<pc, API_KEY, exit_status, now, last_reset, num_calls, conn,
                   topic_idx, patents, i, summary_text, inserted_count,
                   total_inserted, uncaught, issued, last_call, waited,
                   acquired, released, fetched, attempted, failed, searched,
                   summaries, events, db_at_start, returns>>

UpsertNext == Upsert

UpsertSpec == UpsertInit /\ [][UpsertNext]_vars
-----------------------------------------------------------------------------
(* Properties *)

\* the columns of table patents other than summary_text and search_topic
OtherColumns ==
    {"patent_id", "patent_title", "patent_date", "assignee_organization",
     "assignee_country", "assignee_type", "cpc_groups", "wipo_field_id",
     "inventor_count", "inventor_names", "raw_data"}

\* C1: of the requests sent, request number k + N is sent no earlier than
\* 60 seconds after request number k, N being the configured budget; so no
\* trailing 60-second window holds more than N requests.
C1_RollingWindowLimit ==
    \A k \in 1..Len(issued) :
        k + RATE_LIMIT <= Len(issued)
            => issued[k + RATE_LIMIT].t - issued[k].t >= ONE_MINUTE

\* C2: a successful upsert of a record whose patent_id is already stored
\* gives that row the record's summary_text and search_topic, keeps every
\* other column of it and every other row, and adds or removes no row; a
\* successful upsert of a record whose patent_id is not stored adds exactly
\* one row, which holds all the values of the record.
C2_ConflictPolicy ==
    last_try.ok =>
        LET rec == last_try.rec
            same == { k \in 1..Len(db_before) :
                        db_before[k].patent_id = rec.patent_id }
        IN  IF same # {}
            THEN /\ Len(db) = Len(db_before)
                 /\ \A k \in 1..Len(db_before) :
                       IF k \in same
                       THEN /\ db[k].summary_text = rec.summary_text
                            /\ db[k].search_topic = rec.search_topic
                            /\ \A c \in OtherColumns : db[k][c] = db_before[k][c]
                       ELSE db[k] = db_before[k]
            ELSE db = Append(db_before, rec)

\* C2 witness: a stored row was upserted again with another summary, another
\* topic and other metadata, while another row was stored too.
C2_Witness ==
    /\ last_try.ok
    /\ Len(db_before) >= 2
    /\ \E k \in 1..Len(db_before) :
          /\ db_before[k].patent_id = last_try.rec.patent_id
          /\ db_before[k].summary_text # last_try.rec.summary_text
          /\ db_before[k].search_topic # last_try.rec.search_topic
          /\ db_before[k].patent_title # last_try.rec.patent_title

Candidates ==
    { <<patent_data_of(h, s), search_topics[n].name>> :
        h \in Catalogue, s \in {None, "Text A"}, n \in 1..Len(search_topics) }

\* C4: upserting a record a second time, with the same summary and topic,
\* leaves the table as the first upsert left it: no second row, the same
\* column values.  This holds of the upserts the run performs and of any
\* record upserted twice into any table the run can produce.
C4_IdempotentUpsert ==
    /\ (last_try.ok /\ prev_ok = last_try.rec) => db = db_before
    /\ \A c \in Candidates :
          LET once == insert_patent(db, c[1], c[2])
          IN  insert_patent(once, c[1], c[2]) = once

\* C4 witness: the run has upserted the same record twice in a row.
C4_Witness ==
    /\ last_try.ok
    /\ prev_ok = last_try.rec
    /\ db # << >>

\* the first summary text a body of the summary endpoint lists, if any
FirstSummary(data) ==
    LET texts == Get(data, "g_brf_sum_texts", << >>)
    IN  IF texts = << >> THEN None ELSE Get(texts[1], "summary_text", None)

\* C5: whatever the request did, the API call just made has not raised;
\* after a connection error, a timeout, a non-success status or a body whose
\* error flag is set, search has returned the empty list and fetchSummary
\* has returned None; after a body whose error flag is false, search has
\* returned the hits of the body and fetchSummary its first summary text.
C5_ApiFailuresRecovered ==
    last_call.kind # "none" =>
        LET resp == last_call.resp
            res == last_call.result
            nothing == IF last_call.kind = "search" THEN << >> ELSE None
        IN  /\ ~IsRaise(res)
            /\ uncaught = None
            /\ resp.raised # "ok" => res.returns = nothing
            /\ (resp.raised = "ok" /\ "error" \in DOMAIN resp.data)
                  => IF resp.data.error
                     THEN res.returns = nothing
                     ELSE res.returns =
                             IF last_call.kind = "search"
                             THEN Get(resp.data, "patents", << >>)
                             ELSE FirstSummary(resp.data)

\* C5 witness: the search of the first topic reported no data, the second
\* topic was searched all the same and the summary request of its hit timed
\* out; process_topic goes on to the insert with no summary.
C5_Witness ==
    /\ Len(returns) = 1
    /\ returns[1].nodata
    /\ last_call.kind = "summary"
    /\ last_call.resp.raised = "Timeout"
    /\ pc = "insert"
    /\ summary_text = None

\* C6: a process_topic call whose search gave no hits has returned 0, has
\* fetched no summary, has tried no upsert and has left the table as it
\* was; it returns as soon as the search has, and the loop body never runs
\* on an empty list of hits.
C6_EmptySearchShortCircuit ==
    /\ \A n \in 1..Len(returns) :
          returns[n].hits = 0 =>
              /\ returns[n].count = 0
              /\ returns[n].fetched = 0
              /\ returns[n].attempted = 0
              /\ returns[n].db_unchanged
    /\ pc \in {"fetch", "insert"} => patents # << >>
    /\ (last_call.kind = "search" /\ last_call.result = Returns(<< >>))
          => (pc = "topic" /\ returns[Len(returns)].hits = 0)

\* C6 witness: with rows stored by the first topic, the search of the second
\* topic failed and its process_topic call returned.
C6_Witness ==
    /\ Len(returns) = 2
    /\ returns[2].hits = 0
    /\ returns[2].nodata
    /\ db # << >>
    /\ last_call.kind = "search"

\* an upper bound, decreasing with every step of the program, of the number
\* of steps the run has left
StepsLeft ==
    LET K == MaxHits + 3
        topics_left == Len(search_topics) + 1 - topic_idx
        hits_left == CASE pc = "topic" -> MaxHits + 2
                       [] pc = "search" -> MaxHits + 1
                       [] pc \in {"fetch", "insert"} -> Len(patents) + 1 - i
                       [] OTHER -> 0
        phase == CASE pc \in {"search", "fetch"} -> IF Limited(now) THEN 2 ELSE 1
                   [] OTHER -> 0
    IN  CASE pc = "import" -> (Len(search_topics) + 3) * K * K
          [] pc = "main" -> (Len(search_topics) + 2) * K * K
          [] pc = "exit" -> 0
          [] OTHER -> 1 + topics_left * K * K + hits_left * K + phase

C9_StartupFailuresFatal ==
    /\ API_KEY = None => (acquired = 0 /\ pc \in {"import", "exit"})
    /\ (API_KEY = None \/ acquired = 0) =>
          /\ issued = << >>
          /\ upserts = 0
          /\ returns = << >>
          /\ db = << >>
          /\ pc = "exit" => exit_status # 0

\* C9 witness: the key is there, the connection could not be obtained and
\* the process has exited with status 1.
C9_Witness ==
    /\ API_KEY = "k3y"
    /\ pc = "exit"
    /\ exit_status = 1
    /\ acquired = 0

\* C10: a call held at the gate is never rejected: no RateLimitException
\* ends the process; a call at the gate can always either sleep or be sent;
\* it sleeps once at most, for 60 seconds at most, and is let through after
\* sleeping; the step that ends the call sends exactly one request and no
\* other step sends any.
C10_GateOnlyDelays ==
    /\ [](uncaught # "RateLimitException")
    /\ [](pc \in {"search", "fetch"} => ENABLED (Throttle \/ Search \/ Fetch))
    /\ [](waited <= ONE_MINUTE /\ (waited > 0 => ~Limited(now)))
    /\ [][Throttle => (waited = 0 /\ waited' > 0)]_vars
    /\ [][IF pc \in {"search", "fetch"} /\ pc' # pc
          THEN Len(issued') = Len(issued) + 1
          ELSE issued' = issued]_vars

\* C10 witness: a request has been sent after its call slept at the gate.
C10_Witness ==
    \E k \in 1..Len(issued) : issued[k].waited > 0


\* a nested structure of the hit is missing or empty
Degraded(hit) ==
    \/ \E key \in {"assignees", "cpc_current", "wipo", "inventors"} :
          Get(hit, key, << >>) = << >>
    \/ \E k \in 1..Len(Get(hit, "inventors", << >>)) :
          \E part \in {"inventor_name_first", "inventor_name_last"} :
              Get(hit.inventors[k], part, << >>) = << >>

\* t is s without its leading and trailing whitespace
IsTrimOf(t, s) ==
    \E a \in 0..Len(s) : \E b \in a..Len(s) :
        /\ t = SubSeq(s, a + 1, b)
        /\ \A k \in (1..a) \cup ((b + 1)..Len(s)) : IsSpace(s[k])
        /\ t # << >> => (~IsSpace(t[1]) /\ ~IsSpace(t[Len(t)]))

\* C11: for every hit of which a nested structure (assignees, CPC entries,
\* WIPO entries, inventors, a name part of an inventor) is missing or empty,
\* extract_patent_metadata returns (it does not raise) and gives: the three
\* assignee fields of the first assignee, None when there is none;
\* cpc_groups, the non-empty group ids in their order, duplicates kept;
\* wipo_field_id of the first WIPO entry, None when there is none;
\* inventor_count, the number of inventor entries; inventor_names, for each
\* entry the trimmed "first last" with a missing part read as "" -- a single
\* inventor with only the first name "First" gives ["First"].
C11_NormalizationDefensive ==
    /\ pc = "extract" => ENABLED Extract
    /\ (pc = "extracted" /\ Degraded(patents[i])) =>
        LET hit == patents[i]
            r == last_call.result
            m == r.returns
            assignees == Get(hit, "assignees", << >>)
            cpcs == Get(hit, "cpc_current", << >>)
            ids == [k \in 1..Len(cpcs) |-> Get(cpcs[k], "cpc_group_id", None)]
            wipo == Get(hit, "wipo", << >>)
            inventors == Get(hit, "inventors", << >>)
        IN  /\ ~IsRaise(r)
            /\ \A f \in {"assignee_organization", "assignee_country",
                         "assignee_type"} :
                  m[f] = IF assignees = << >> THEN None
                         ELSE Get(assignees[1], f, None)
            /\ m.cpc_groups = SelectSeq(ids, Truthy)
            /\ m.wipo_field_id = IF wipo = << >> THEN None
                                 ELSE Get(wipo[1], "wipo_field_id", None)
            /\ m.inventor_count = Len(inventors)
            /\ Len(m.inventor_names) = Len(inventors)
            /\ \A k \in 1..Len(inventors) :
                  IsTrimOf(m.inventor_names[k],
                           Get(inventors[k], "inventor_name_first", << >>)
                           \o <<" ">>
                           \o Get(inventors[k], "inventor_name_last", << >>))
            /\ inventors = << [inventor_name_first |-> <<"F", "i", "r", "s", "t">>] >>
                  => m.inventor_names = << <<"F", "i", "r", "s", "t">> >>

\* C11 witness: the hit with empty lists of assignees, CPC entries and WIPO
\* entries and one inventor with only the first name "First" has been
\* normalised: no assignee, no group ids, no WIPO field, one inventor "First".
C11_Witness ==
    /\ pc = "extracted"
    /\ {"assignees", "cpc_current", "wipo", "inventors"} \subseteq DOMAIN patents[i]
    /\ patents[i].assignees = << >>
    /\ patents[i].cpc_current = << >>
    /\ patents[i].wipo = << >>
    /\ patents[i].inventors = << [inventor_name_first |-> <<"F", "i", "r", "s", "t">>] >>
    /\ last_call.result.returns.assignee_organization = None
    /\ last_call.result.returns.cpc_groups = << >>
    /\ last_call.result.returns.wipo_field_id = None
    /\ last_call.result.returns.inventor_count = 1
    /\ last_call.result.returns.inventor_names = << <<"F", "i", "r", "s", "t">> >>

\* the patent_ids of the hits a search returned
Ids(hits) == [k \in 1..Len(hits) |-> Get(hits[k], "patent_id", None)]

\* no two elements of the sequence are equal
Distinct(s) == \A j, k \in 1..Len(s) : j # k => s[j] # s[k]

\* C12: when process_topic has returned from a call that started on an empty
\* table, whose search returned hits with distinct patent_ids and whose
\* inserts all succeeded, it has returned the number of hits and the table
\* holds exactly one row per hit, with the topic's name as search_topic and,
\* as summary_text, what fetch_patent_summary returned for the request made
\* with that hit's patent_id (None when it yielded nothing or failed); hits
\* P1, P2 of topic "solar" with summaries "Text A" and None give 2 and the
\* rows (P1, "Text A", "solar"), (P2, None, "solar").
C12_EndToEnd ==
    (/\ pc = "topic"
     /\ returns # << >>
     /\ db_at_start = << >>
     /\ searched # << >>
     /\ Distinct(Ids(searched))
     /\ failed = {}) =>
        LET topic == search_topics[topic_idx - 1]
            requests == SubSeq(issued, Len(issued) - Len(searched) + 1, Len(issued))
        IN  /\ returns[Len(returns)].count = Len(searched)
            /\ Len(db) = Len(searched)
            /\ Len(summaries) = Len(searched)
            /\ \A k \in 1..Len(searched) :
                  /\ requests[k].kind = "summary"
                  /\ requests[k].patent_id = Ids(searched)[k]
                  /\ \E n \in 1..Len(db) :
                        /\ db[n].patent_id = Ids(searched)[k]
                        /\ db[n].search_topic = topic.name
                        /\ db[n].summary_text = summaries[k]
                        /\ \A o \in 1..Len(db) :
                              db[o].patent_id = db[n].patent_id => o = n
            /\ (/\ topic.name = "solar"
                /\ Ids(searched) = <<"P1", "P2">>
                /\ summaries = <<"Text A", None>>)
                  => /\ returns[Len(returns)].count = 2
                     /\ { <<db[n].patent_id, db[n].summary_text, db[n].search_topic>> :
                              n \in 1..Len(db) }
                          = { <<"P1", "Text A", "solar">>, <<"P2", None, "solar">> }

\* C12 witness: process_topic has returned 2 for topic "solar" on an empty
\* table, the search having returned P1 and P2 and the summary requests
\* "Text A" for P1 and nothing for P2.
C12_Witness ==
    /\ pc = "topic"
    /\ Len(returns) = 1
    /\ returns[1].count = 2
    /\ db_at_start = << >>
    /\ Ids(searched) = <<"P1", "P2">>
    /\ summaries = <<"Text A", None>>
    /\ failed = {}
    /\ Len(db) = 2
    /\ db[1].summary_text = "Text A"
    /\ db[2].summary_text = None

RECURSIVE RequestsOf(_)
\* the requests the finished process_topic calls account for: one search
\* and one summary request per hit, each
RequestsOf(rets) ==
    IF rets = << >> THEN 0
    ELSE 1 + Head(rets).hits + RequestsOf(Tail(rets))

\* the requests the process_topic call in progress has made so far
RequestsInProgress ==
    CASE pc = "fetch" -> 1 + (i - 1)
      [] pc = "insert" -> 1 + i
      [] OTHER -> 0

\* the requests sent in the period the gate is counting
InPeriod == { k \in 1..Len(issued) : issued[k].t >= last_reset }

\* C13: every call of search_patents or fetch_patent_summary sends exactly
\* one request and takes exactly one unit of the gate's budget of the period
\* it is sent in, whatever the outcome of the request (answer, error body,
\* transport failure), and the call is not made again; so a process_topic
\* call whose search returns k hits sends exactly 1 + k requests (1 when the
\* search yields nothing).
C13_OneUnitOneAttempt ==
    /\ [](Len(issued) = RequestsOf(returns) + RequestsInProgress)
    /\ [](Cardinality(InPeriod)
            = IF num_calls > clamped_calls THEN clamped_calls ELSE num_calls)
    /\ [][IF pc \in {"search", "fetch"} /\ pc' # pc
          THEN /\ Len(issued') = Len(issued) + 1
               /\ SubSeq(issued', 1, Len(issued)) = issued
               /\ issued'[Len(issued')].kind = IF pc = "search" THEN "search" ELSE "summary"
               /\ num_calls' = (IF PeriodOver(now) THEN 0 ELSE num_calls) + 1
               /\ num_calls' <= clamped_calls
               /\ last_call'.kind # "none"
          ELSE issued' = issued]_vars

\* C13 witness: the summary request of the second of two hits has just
\* failed with a timeout: three requests have been sent in all, and the
\* gate has counted one unit for the failed request.
C13_Witness ==
    /\ pc = "insert"
    /\ i = 2
    /\ last_call.kind = "summary"
    /\ last_call.resp.raised = "Timeout"
    /\ Len(issued) = 3
    /\ num_calls = 1
    /\ issued[3].t = last_reset

\* the table once the upsert of record rec has been committed on rows
Upserted(rows, rec) ==
    IF \E k \in 1..Len(rows) : rows[k].patent_id = rec.patent_id
    THEN [k \in 1..Len(rows) |->
             IF rows[k].patent_id = rec.patent_id
             THEN [rows[k] EXCEPT !.summary_text = rec.summary_text,
                                  !.search_topic = rec.search_topic]
             ELSE rows[k]]
    ELSE rows \o <<rec>>

RECURSIVE UpsertedAll(_, _)
\* the table once the upserts of the records recs have been committed, in order
UpsertedAll(rows, recs) ==
    IF recs = << >> THEN rows
    ELSE UpsertedAll(Upserted(rows, Head(recs)), Tail(recs))

\* C14: the upsert of each record is committed or rolled back before the
\* next record is handled: between two records no transaction is open, the
\* table is the initial (empty) table with exactly the successful upserts
\* applied in their order, and an upsert that failed has left the table
\* exactly as it was before the attempt, the rows of other records included.
C14_PerRecordAtomicity ==
    /\ [](~txn.open)
    /\ [](db = UpsertedAll(<< >>, applied))
    /\ [](~last_try.ok => db = db_before)
    /\ [][upserts' # upserts =>
            /\ db_before' = db
            /\ IF last_try'.ok
               THEN /\ applied' = Append(applied, last_try'.rec)
                    /\ db' = Upserted(db, last_try'.rec)
               ELSE /\ applied' = applied
                    /\ db' = db]_vars

\* C14 witness: the upsert of P1 was committed, then the upsert of P2 failed
\* and left the table, which holds the row of P1 alone, as it was.
C14_Witness ==
    /\ Len(applied) = 1
    /\ applied[1].patent_id = "P1"
    /\ ~last_try.ok
    /\ last_try.rec.patent_id = "P2"
    /\ Len(db) = 1
    /\ db[1] = applied[1]
    /\ ~txn.open

\* the number of hits the search of topic number t returned
HitsOf(t) == IF t <= Len(returns) THEN returns[t].hits ELSE Len(searched)

RECURSIVE SumOfCounts(_)
\* the sum of the counts the finished process_topic calls returned
SumOfCounts(rets) ==
    IF rets = << >> THEN 0 ELSE Head(rets).count + SumOfCounts(Tail(rets))

\* the number of the topic whose search result the variable searched holds
SearchedTopic == IF pc = "topic" THEN Len(returns) ELSE Len(returns) + 1

\* event f may come directly after event e
MayFollow(e, f) ==
    CASE e.op = "search" ->
            \/ f.op = "fetch" /\ f.topic = e.topic /\ f.hit = 1
            \/ f.op = "search" /\ f.topic = e.topic + 1 /\ HitsOf(e.topic) = 0
      [] e.op = "fetch" ->
            f.op = "upsert" /\ f.topic = e.topic /\ f.hit = e.hit /\ f.id = e.id
      [] e.op = "upsert" ->
            \/ f.op = "fetch" /\ f.topic = e.topic /\ f.hit = e.hit + 1
            \/ f.op = "search" /\ f.topic = e.topic + 1
                               /\ e.hit = HitsOf(e.topic)

\* C15: main takes the topics in the configured order and process_topic the
\* hits in the order the search returned them: the run is search of topic
\* 1, then for each of its hits in order the summary fetch followed by the
\* upsert of that hit (ended by commit or rollback before the next fetch),
\* then the search of topic 2, and so on; the requests sent are those
\* searches and fetches in that order; and main's total is the sum of the
\* counts process_topic returned, which is the number of committed upserts.
C15_SequentialOrderAndTotals ==
    LET requests == SelectSeq(events, LAMBDA e : e.op # "upsert")
    IN  /\ events # << >> => events[1] = [op |-> "search", topic |-> 1,
                                          hit |-> 0, id |-> None]
        /\ \A j \in 1..(Len(events) - 1) : MayFollow(events[j], events[j + 1])
        /\ \A j \in 1..Len(events) :
              (events[j].op # "search" /\ events[j].topic = SearchedTopic)
                => events[j].id = Ids(searched)[events[j].hit]
        /\ Len(requests) = Len(issued)
        /\ \A j \in 1..Len(requests) :
              IF requests[j].op = "search"
              THEN /\ issued[j].kind = "search"
                   /\ issued[j].q = search_topics[requests[j].topic].query
              ELSE /\ issued[j].kind = "summary"
                   /\ issued[j].patent_id = requests[j].id
        /\ Len(events) - Len(requests) = upserts
        /\ pc \in {"search", "fetch"} => ~txn.open
        /\ total_inserted = SumOfCounts(returns)
        /\ total_inserted + inserted_count = Len(applied)
        /\ (pc = "exit" /\ acquired = 1) =>
              /\ Len(returns) = Len(search_topics)
              /\ total_inserted = Len(applied)

\* C15 witness: the run has ended after the search of topic 1, the fetch and
\* upsert of its first hit, the fetch and upsert of its second hit, the
\* search of topic 2 and the fetch and upsert of its hit; one upsert failed
\* and the total is 2.
C15_Witness ==
    /\ pc = "exit"
    /\ Len(events) = 8
    /\ [j \in 1..8 |-> <<events[j].op, events[j].topic, events[j].hit>>]
         = << <<"search", 1, 0>>, <<"fetch", 1, 1>>, <<"upsert", 1, 1>>,
              <<"fetch", 1, 2>>, <<"upsert", 1, 2>>, <<"search", 2, 0>>,
              <<"fetch", 2, 1>>, <<"upsert", 2, 1>> >>
    /\ returns[1].count = 1
    /\ returns[2].count = 1
    /\ total_inserted = 2
    /\ Len(applied) = 2

Min(a, b) == IF a <= b THEN a ELSE b

\* values of max_results below, at and above the ceiling of the service
MaxResultsSamples == {1, 2, 100, 999, 1000, 1001, 2000}

\* the number of process_topic calls that have made their search
Searched == Len(returns) + (IF pc \in {"fetch", "insert"} THEN 1 ELSE 0)

\* C16: search_patents sends one request per topic, for page 1 and no other
\* page, whose size is min(max_results, 1000): 1000 for every max_results
\* above 1000 and max_results itself for every max_results up to 1000.
C16_SearchPageSize ==
    LET searches == SelectSeq(issued, LAMBDA r : r.kind = "search")
    IN  /\ Len(searches) = Searched
        /\ \A n \in 1..Len(searches) :
              /\ searches[n].q = search_topics[n].query
              /\ searches[n].page = 1
              /\ searches[n].size = Min(search_topics[n].max_patents, 1000)
        /\ \A m \in MaxResultsSamples :
              LET request == search_request([name |-> "t", query |-> "q",
                                             max_patents |-> m])
              IN  /\ request.page = 1
                  /\ request.size = Min(m, 1000)
                  /\ m > 1000 => request.size = 1000
                  /\ m <= 1000 => request.size = m

\* C16 witness: both topics have been searched: the request of the topic
\* with max_patents 2000 asked for 1000 hits, the request of the topic with
\* max_patents 1 for 1 hit, each for page 1.
C16_Witness ==
    LET searches == SelectSeq(issued, LAMBDA r : r.kind = "search")
    IN  /\ Len(searches) = 2
        /\ search_topics[1].max_patents = 2000
        /\ searches[1].size = 1000
        /\ searches[1].page = 1
        /\ searches[2].size = 1
        /\ searches[2].page = 1

\* the positions in applied of the committed upserts of patent_id id
UpsertsOf(id) == { k \in 1..Len(applied) : applied[k].patent_id = id }

Least(S) == CHOOSE k \in S : \A j \in S : k <= j

Greatest(S) == CHOOSE k \in S : \A j \in S : k >= j

\* C17: after any sequence of committed upserts the table holds no two rows
\* with the same patent_id and a row for exactly the patent_ids upserted;
\* the summary_text and search_topic of each row are those of the most
\* recent committed upsert of its patent_id (a summary of None replaces a
\* stored text), and every other column is that of the first one.
C17_LastWriteWins ==
    /\ \A j, k \in 1..Len(db) : db[j].patent_id = db[k].patent_id => j = k
    /\ { db[k].patent_id : k \in 1..Len(db) }
         = { applied[k].patent_id : k \in 1..Len(applied) }
    /\ \A k \in 1..Len(db) :
          LET mine == UpsertsOf(db[k].patent_id)
              first == applied[Least(mine)]
              recent == applied[Greatest(mine)]
          IN  /\ db[k].summary_text = recent.summary_text
              /\ db[k].search_topic = recent.search_topic
              /\ \A c \in OtherColumns : db[k][c] = first[c]
              /\ DOMAIN db[k] = OtherColumns \cup {"summary_text", "search_topic"}

\* C17 witness: P1 was upserted three times: first with a summary under
\* topic "solar", then with other metadata, and last with no summary under
\* topic "wind"; its row has no summary, topic "wind" and the first metadata.
C17_Witness ==
    /\ Len(applied) = 3
    /\ \A k \in 1..3 : applied[k].patent_id = "P1"
    /\ applied[1].summary_text = "Text A"
    /\ applied[1].search_topic = "solar"
    /\ applied[2].patent_title # applied[1].patent_title
    /\ applied[3].summary_text = None
    /\ applied[3].search_topic = "wind"
    /\ Len(db) = 1
    /\ db[1].summary_text = None
    /\ db[1].search_topic = "wind"
    /\ db[1].patent_title = applied[1].patent_title

\* the body with its error flag set
WithErrorFlag(data) == [error |-> TRUE] @@ data

\* C18: the API call just made has taken the body of its response as a
\* success only if the body carries an error flag and the flag is false; a
\* body without the flag is handled as the same body with the flag set:
\* search_patents has returned the empty list even if the body lists hits
\* and fetch_patent_summary has returned None even if the body lists a text.
C18_MissingFlagIsError ==
    (last_call.kind \in {"search", "summary"} /\ last_call.resp.raised = "ok") =>
        LET data == last_call.resp.data
            res == last_call.result
            nothing == IF last_call.kind = "search" THEN << >> ELSE None
            flagged == [raised |-> "ok", data |-> WithErrorFlag(data)]
        IN  /\ ~IsRaise(res)
            /\ res.returns # nothing =>
                  ("error" \in DOMAIN data /\ data.error = FALSE)
            /\ "error" \notin DOMAIN data =>
                  /\ res.returns = nothing
                  /\ res = IF last_call.kind = "search"
                           THEN search_patents(flagged)
                           ELSE fetch_patent_summary(flagged)
                  /\ last_call.kind = "search" =>
                        (pc = "topic" /\ returns[Len(returns)].count = 0
                                      /\ searched = << >>)
                  /\ last_call.kind = "summary" =>
                        (pc = "insert" /\ summary_text = None)

\* C18 witness: the response to a summary request listed a summary text and
\* carried no error flag; fetch_patent_summary has returned None.
C18_Witness ==
    /\ last_call.kind = "summary"
    /\ last_call.resp.raised = "ok"
    /\ "error" \notin DOMAIN last_call.resp.data
    /\ last_call.resp.data.g_brf_sum_texts[1].summary_text = "Text A"
    /\ last_call.result = Returns(None)
    /\ pc = "insert"
    /\ summary_text = None
====
